---- MODULE Spec2Model ----
(***************************************************************************)
(* Model of package perfect (soypat/perfect): the coefficient odometer of  *)
(* HashSequential, its hash evaluation, and HashFinder.Search.             *)
(*                                                                         *)
(* Go's uint is modelled as a machine word of WordBits bits: every         *)
(* arithmetic result on a uint is reduced modulo 2^WordBits.  The masked   *)
(* hash only depends on the low tableSizeBits bits, so for                 *)
(* tableSizeBits <= WordBits the narrow word computes the very slot the    *)
(* 64 bit word computes.  A string is a sequence of byte values.           *)
(*                                                                         *)
(* Go's int has 32 or 64 bits, as the build has it (intSize); it matters   *)
(* for tblsz := 1 << tableSizeBits.  The negation of a byte index is taken *)
(* in an int of WordBits bits.  Callers come in kinds, each with its own   *)
(* initial states: searches over configured families, over families of any *)
(* operation, the keyword example, repeated searches on one HashFinder,    *)
(* stepping the odometer by hand, two searches side by side, calls of the  *)
(* estimator, and single calls of Hash and Apply.                          *)
(***************************************************************************)
EXTENDS Integers, Sequences, FiniteSets, TLC

\* ---------------------------------------------------------------- bounds
WordBits == 6
MaxCoefs == 2
MaxInputs == 2
MaxAttempts == 61
MaxCount == 10

Word == 2^WordBits
MaxWord == Word - 1

\* ------------------------------------------------------ program constants
opUndefined == 0
OpAdd == 1
OpXor == 2
OpMul == 3
MaxTableBits == 32

\* Result of an evaluation that panicked ("unsupported operation", or an
\* index out of range).
Panic == -1

\* Go's int has the bits of uint: the smallest int, and -idx on an int (the
\* negation of the smallest int is itself).
MinInt == -(2^(WordBits - 1))
Neg(idx) == IF idx = MinInt THEN MinInt ELSE -idx

\* The three errors Search can return, and nil.
ErrNil == "nil"
ErrNoCoefficientsFound == "no coefficients found"
ErrTableSize == "zero/negative bits for table size or too large"
ErrZeroInputs == "zero inputs"
ErrConfig == "default max coefficient need be set and positive for input"

\* ------------------------------------------------------------ bit helpers
RECURSIVE BitXor(_, _)
BitXor(a, b) ==
    IF a = 0 THEN b
    ELSE IF b = 0 THEN a
    ELSE (((a % 2) + (b % 2)) % 2) + 2 * BitXor(a \div 2, b \div 2)

RECURSIVE BitAnd(_, _)
BitAnd(a, b) ==
    IF a = 0 \/ b = 0 THEN 0
    ELSE ((a % 2) * (b % 2)) + 2 * BitAnd(a \div 2, b \div 2)

\* ------------------------------------------------------------------ Coef
Coef(idx, start, max, pow2, op) ==
    [IndexApplied |-> idx, Value |-> 0, MaxValue |-> max,
     StartValue |-> start, OnlyPow2 |-> pow2, Op |-> op]

\* The value a coefficient is (re)initialised to.
StartOf(c) == IF c.StartValue = 0 THEN 1 ELSE c.StartValue

\* init that leaves Op as it is.
initKeepOp(c) == [c EXCEPT !.Value = IF c.StartValue = 0 THEN 1 ELSE c.StartValue]

init(c) ==
    [c EXCEPT !.Value = IF c.StartValue = 0 THEN 1 ELSE c.StartValue,
              !.Op = IF c.Op = opUndefined THEN OpAdd ELSE c.Op]

CoefIncrement(c) ==
    [c EXCEPT !.Value = IF c.OnlyPow2 THEN (c.Value * 2) % Word
                        ELSE (c.Value + 1) % Word]

\* Saturated only above the maximum.
SaturatedAbove(c) == c.Value > c.MaxValue

Saturated(c) == c.Value >= c.MaxValue

\* config that writes a positive defaultMax over any MaxValue.
configOverwrite(coef, defaultMax) ==
    LET c == init(coef) IN
    IF defaultMax > 0
    THEN [coef |-> [c EXCEPT !.MaxValue = defaultMax], err |-> FALSE]
    ELSE [coef |-> c, err |-> c.MaxValue = 0]

\* config returns the coefficient and whether it failed.
config(coef, defaultMax) ==
    LET c == init(coef) IN
    IF c.MaxValue = 0
    THEN IF defaultMax <= 0
         THEN [coef |-> c, err |-> TRUE]
         ELSE [coef |-> [c EXCEPT !.MaxValue = defaultMax], err |-> FALSE]
    ELSE [coef |-> c, err |-> FALSE]

\* Apply that adds where the operation is none of the three.
ApplyDefaultAdd(coef, h, kw) ==
    LET idx == coef.IndexApplied
        a == IF idx < 0 /\ Neg(idx) <= Len(kw)
             THEN IF Len(kw) + idx < 0 THEN Panic
                  ELSE (kw[Len(kw) + idx + 1] * coef.Value) % Word
             ELSE IF idx >= 0 /\ idx < Len(kw)
                  THEN (kw[idx + 1] * coef.Value) % Word
                  ELSE 0
    IN  IF a = Panic THEN Panic
        ELSE CASE coef.Op = OpXor -> BitXor(h, a)
               [] coef.Op = OpMul -> (h * a) % Word
               [] OTHER -> (h + a) % Word

\* Apply: the byte read is kw[len(kw)+idx] where -idx <= len(kw), which
\* for idx = MinInt is an index below 0 (index out of range).
Apply(coef, h, kw) ==
    LET idx == coef.IndexApplied
        a == IF idx < 0 /\ Neg(idx) <= Len(kw)
             THEN IF Len(kw) + idx < 0 THEN Panic
                  ELSE (kw[Len(kw) + idx + 1] * coef.Value) % Word
             ELSE IF idx >= 0 /\ idx < Len(kw)
                  THEN (kw[idx + 1] * coef.Value) % Word
                  ELSE 0
    IN  IF a = Panic THEN Panic
        ELSE CASE coef.Op = OpAdd -> (h + a) % Word
               [] coef.Op = OpXor -> BitXor(h, a)
               [] coef.Op = OpMul -> (h * a) % Word
               [] OTHER -> Panic

\* -------------------------------------------------------- HashSequential
RECURSIVE ApplyFrom(_, _, _, _)
ApplyFrom(coefs, i, h, kw) ==
    IF i > Len(coefs) \/ h = Panic THEN h
    ELSE ApplyFrom(coefs, i + 1, Apply(coefs[i], h, kw), kw)

Hash(family, dataToHash) ==
    ApplyFrom(family.Coefs, 1,
              (Len(dataToHash) * family.LenCoef.Value) % Word, dataToHash)

\* The carry loop of Increment: i is the (1-based) index of the coefficient
\* that was just advanced.
\* The carry loop without coefs[i].init().
RECURSIVE CarryNoInit(_, _)
CarryNoInit(coefs, i) ==
    IF Saturated(coefs[i]) /\ i < Len(coefs)
    THEN CarryNoInit([coefs EXCEPT ![i + 1] = CoefIncrement(@)], i + 1)
    ELSE coefs

RECURSIVE Carry(_, _)
Carry(coefs, i) ==
    IF Saturated(coefs[i]) /\ i < Len(coefs)
    THEN Carry([coefs EXCEPT ![i] = init(@), ![i + 1] = CoefIncrement(@)], i + 1)
    ELSE coefs

\* Increment returns the advanced family, the done flag, and whether the
\* call panicked (coefs[0] on an empty slice: index out of range).
Increment(family) ==
    IF Len(family.Coefs) = 0
    THEN [hs |-> family, done |-> FALSE, panicked |-> TRUE]
    ELSE LET n == Len(family.Coefs)
             c1 == [family.Coefs EXCEPT ![1] = CoefIncrement(@)]
             c2 == Carry(c1, 1)
             lastIsSaturated == Saturated(c2[n])
             c3 == IF lastIsSaturated THEN [c2 EXCEPT ![n] = init(@)] ELSE c2
             lc == IF lastIsSaturated THEN CoefIncrement(family.LenCoef)
                   ELSE family.LenCoef
         IN  [hs |-> [LenCoef |-> lc, Coefs |-> c3],
              done |-> lc.Value > lc.MaxValue,
              panicked |-> FALSE]

\* ConfigCoefs: config each byte coefficient in order, stop at the first
\* error (the coefficients before it, and the failing one, stay initialised),
\* then config the length coefficient.
RECURSIVE ConfigFrom(_, _, _)
ConfigFrom(coefs, i, defaultMax) ==
    IF i > Len(coefs) THEN [coefs |-> coefs, err |-> FALSE]
    ELSE LET r == config(coefs[i], defaultMax)
             cs == [coefs EXCEPT ![i] = r.coef]
         IN  IF r.err THEN [coefs |-> cs, err |-> TRUE]
             ELSE ConfigFrom(cs, i + 1, defaultMax)

ConfigCoefsResult(family, defaultMax) ==
    LET r == ConfigFrom(family.Coefs, 1, defaultMax) IN
    IF r.err THEN [hs |-> [family EXCEPT !.Coefs = r.coefs], err |-> TRUE]
    ELSE LET l == config(family.LenCoef, defaultMax)
         IN  [hs |-> [LenCoef |-> l.coef, Coefs |-> r.coefs], err |-> l.err]

\* The tuple (LenCoef.Value, Coefs[0].Value, ..., Coefs[n-1].Value).
Tuple(family) ==
    <<family.LenCoef.Value>> \o [i \in 1..Len(family.Coefs) |-> family.Coefs[i].Value]

\* ------------------------------------------------------------ HashFinder
\* One pass of the inner loop of Search over the inputs from position i on:
\* occ is the set of indices of the scratch table holding a non-zero value,
\* size the length of the table (hashmap[h] panics for h >= size).
\* Scan without the write hashmap[h] = 1.
RECURSIVE ScanNoMark(_, _, _, _, _, _, _)
ScanNoMark(family, ins, i, occ, mask, n, size) ==
    IF i > Len(ins)
    THEN [attemptSuccess |-> TRUE, occ |-> occ, hashed |-> n, panicked |-> FALSE]
    ELSE LET hv == Hash(family, ins[i]) IN
         IF hv = Panic
         THEN [attemptSuccess |-> FALSE, occ |-> occ, hashed |-> n + 1,
               panicked |-> TRUE]
         ELSE LET h == BitAnd(hv, mask) IN
              IF h >= size
              THEN [attemptSuccess |-> FALSE, occ |-> occ, hashed |-> n + 1,
                    panicked |-> TRUE]
              ELSE IF h \in occ
              THEN [attemptSuccess |-> FALSE, occ |-> occ, hashed |-> n + 1,
                    panicked |-> FALSE]
              ELSE ScanNoMark(family, ins, i + 1, occ, mask, n + 1, size)

\* Scan that goes on evaluating the inputs after a collision.
ScanNoBreak(family, ins, i, occ, mask, n, size) ==
    LET r == ScanNoMark(family, ins, i, occ, mask, n, size) IN
    IF r.panicked THEN r
    ELSE [attemptSuccess |->
              \A j, k \in i..Len(ins) :
                  /\ BitAnd(Hash(family, ins[j]), mask) \notin occ
                  /\ j # k => BitAnd(Hash(family, ins[j]), mask)
                                 # BitAnd(Hash(family, ins[k]), mask),
          occ |-> occ \cup {BitAnd(Hash(family, ins[j]), mask) : j \in i..Len(ins)},
          hashed |-> n + (Len(ins) - i + 1),
          panicked |-> FALSE]

\* Scan that remembers the slot of the last input alone.
RECURSIVE ScanLastOnly(_, _, _, _, _, _, _)
ScanLastOnly(family, ins, i, occ, mask, n, size) ==
    IF i > Len(ins)
    THEN [attemptSuccess |-> TRUE, occ |-> occ, hashed |-> n, panicked |-> FALSE]
    ELSE LET hv == Hash(family, ins[i]) IN
         IF hv = Panic
         THEN [attemptSuccess |-> FALSE, occ |-> occ, hashed |-> n + 1,
               panicked |-> TRUE]
         ELSE LET h == BitAnd(hv, mask) IN
              IF h >= size
              THEN [attemptSuccess |-> FALSE, occ |-> occ, hashed |-> n + 1,
                    panicked |-> TRUE]
              ELSE IF h \in occ
              THEN [attemptSuccess |-> FALSE, occ |-> occ, hashed |-> n + 1,
                    panicked |-> FALSE]
              ELSE ScanLastOnly(family, ins, i + 1, {h}, mask, n + 1, size)

RECURSIVE Scan(_, _, _, _, _, _, _)
Scan(family, ins, i, occ, mask, n, size) ==
    IF i > Len(ins)
    THEN [attemptSuccess |-> TRUE, occ |-> occ, hashed |-> n, panicked |-> FALSE]
    ELSE LET hv == Hash(family, ins[i]) IN
         IF hv = Panic
         THEN [attemptSuccess |-> FALSE, occ |-> occ, hashed |-> n + 1,
               panicked |-> TRUE]
         ELSE LET h == BitAnd(hv, mask) IN
              IF h >= size
              THEN [attemptSuccess |-> FALSE, occ |-> occ, hashed |-> n + 1,
                    panicked |-> TRUE]
              ELSE IF h \in occ
              THEN [attemptSuccess |-> FALSE, occ |-> occ, hashed |-> n + 1,
                    panicked |-> FALSE]
              ELSE Scan(family, ins, i + 1, occ \cup {h}, mask, n + 1, size)

\* tblsz := 1 << tableSizeBits on an int of size bits: the set bit is shifted
\* into the sign bit for bits = size - 1 and out of the word for bits >= size.
Tblsz(bits, size) ==
    IF bits >= size THEN 0
    ELSE IF bits = size - 1 THEN (-(2^(bits - 1))) * 2
    ELSE 2^bits

\* The attempt loop of Search on a table that holds no marks, from its n-th
\* attempt on: what it returns and the family it leaves.
RECURSIVE SearchFrom(_, _, _, _, _)
SearchFrom(family, ins, mask, size, n) ==
    LET s == Scan(family, ins, 1, {}, mask, 0, size)
        inc == Increment(family)
    IN  IF s.panicked THEN [hs |-> family, attempts |-> n, err |-> "panic"]
        ELSE IF s.attemptSuccess THEN [hs |-> family, attempts |-> n, err |-> ErrNil]
        ELSE IF inc.panicked THEN [hs |-> family, attempts |-> n, err |-> "panic"]
        ELSE IF inc.done
        THEN [hs |-> inc.hs, attempts |-> n, err |-> ErrNoCoefficientsFound]
        ELSE SearchFrom(inc.hs, ins, mask, size, n + 1)

\* Search on a zero HashFinder, once its arguments have passed the tests.
SearchFresh(family, bits, ins, size) ==
    IF Tblsz(bits, size) < 0 THEN [hs |-> family, attempts |-> 0, err |-> "panic"]
    ELSE SearchFrom(family, ins, (Tblsz(bits, size) - 1) % Word, Tblsz(bits, size), 1)

\* slices.Grow(phf.hashmap[:0], tblsz)[:tblsz]: the backing array is kept
\* when it is large enough, reallocated (old contents copied) otherwise.
Grow(table, tblsz) ==
    [len |-> tblsz,
     cap |-> IF table.cap >= tblsz THEN table.cap ELSE tblsz,
     occ |-> table.occ]

\* clear(hashmap) left out.
ClearNothing(table) == table

\* clear(hashmap) zeroes the len visible slots.
Clear(table) == [table EXCEPT !.occ = @ \ (0..(table.len - 1))]


\* ------------------------------------------------------------- estimator
\* The probability that inputCount balls thrown into tableSize bins collide
\* nowhere: the product of (1 - i/tableSize) for i in 0..inputCount-1, as the
\* fraction num/den in lowest terms.
RECURSIVE GCD(_, _)
GCD(a, b) == IF b = 0 THEN a ELSE GCD(b, a % b)

Fraction(num, den) == [num |-> num \div GCD(num, den), den |-> den \div GCD(num, den)]

\* The product taken for i in 1..inputCount.
RECURSIVE CollisionFreeFromOne(_, _)
CollisionFreeFromOne(tableSize, inputCount) ==
    IF inputCount <= 0 THEN [num |-> 1, den |-> 1]
    ELSE LET p == CollisionFreeFromOne(tableSize, inputCount - 1)
             num == p.num * (tableSize - inputCount)
         IN  IF num <= 0 THEN [num |-> 0, den |-> 1]
             ELSE Fraction(num, p.den * tableSize)

RECURSIVE CollisionFree(_, _)
CollisionFree(tableSize, inputCount) ==
    IF inputCount <= 0 THEN [num |-> 1, den |-> 1]
    ELSE LET p == CollisionFree(tableSize, inputCount - 1)
             num == p.num * (tableSize - (inputCount - 1))
         IN  IF num <= 0 THEN [num |-> 0, den |-> 1]
             ELSE Fraction(num, p.den * tableSize)

\* SearchSuccessProbability(tableSizeBits, inputCount, searchSpaceSize): the
\* probability and whether the call failed.  searchSpaceSize is not consulted.
SearchSuccessProbability(bits, inputCount, searchSpaceSize) ==
    IF bits <= 0 \/ bits > MaxTableBits
    THEN [prob |-> [num |-> 0, den |-> 1], err |-> TRUE]
    ELSE [prob |-> CollisionFree(2^bits, inputCount), err |-> inputCount > 2^bits]

\* ------------------------------------------------- caller-chosen configurations
\* Strings are byte sequences: "", "a", "ba".
StringPool == {<< >>, <<1>>, <<2, 1>>}
IndexSet == {0, -1}
OpSet == {opUndefined, OpXor, OpMul}
DefaultMaxSet == {0, 3}
\* tableSizeBits a caller may pass: valid sizes and values outside (0, 32].
ValidBits == {1, 2}
TableBitsSet == ValidBits \cup {-1, 0, MaxTableBits + 1}
\* The build's int size with the tableSizeBits passed: any of the above where
\* int has 64 bits, and the largest sizes Search accepts where it has 32.
\* (A table of 2^31 or 2^32 slots, as a 64 bit build makes it, exceeds the
\* integers of the model.)
BuildsAndBits ==
    ({64} \X TableBitsSet) \cup ({32} \X {1, MaxTableBits - 1, MaxTableBits})
\* (StartValue, MaxValue) pairs a caller may write into a coefficient: both
\* unset, an ordinary range, a start above the maximum, and a range that ends
\* at the largest machine word.
RangePairs == {<<0, 0>>, <<2, 4>>, <<3, 2>>, <<MaxWord - 1, MaxWord>>}

SeqsUpTo(S, n) == UNION {[1..k -> S] : k \in 0..n}
InputLists == SeqsUpTo(StringPool, MaxInputs)

\* Families whose coefficients differ in the byte they read and in their
\* operation (ranges left to the default maximum).
HashCoefs == {Coef(i, 0, 0, FALSE, o) : i \in IndexSet, o \in OpSet}
HashFamiliesUpTo(n) ==
    {[LenCoef |-> Coef(0, 0, 2, FALSE, opUndefined), Coefs |-> cs] :
        cs \in SeqsUpTo(HashCoefs, n)}

\* Families whose coefficients differ in their ranges and stepping.
OdoCoefs == {Coef(0, r[1], r[2], p, opUndefined) : r \in RangePairs, p \in BOOLEAN}
OdoFamilies ==
    {[LenCoef |-> l, Coefs |-> cs] : l \in OdoCoefs, cs \in SeqsUpTo(OdoCoefs, MaxCoefs)}

\* Families whose coefficients hold any operation a caller can write: none,
\* the three declared ones, and a value of type Op that is none of them.
AnyOps == opUndefined..(OpMul + 1)
OpsCoefs == {Coef(0, 0, 2, FALSE, o) : o \in AnyOps}
OpsFamilies ==
    {[LenCoef |-> Coef(0, 0, 2, FALSE, o), Coefs |-> cs] :
        o \in {opUndefined, OpMul + 1}, cs \in SeqsUpTo(OpsCoefs, MaxCoefs)}

\* The keywords of Go in the order of go/token, as bytes:
\* break case chan const continue default defer else fallthrough
\* for func go goto if import interface map package
\* range return select struct switch type var
GoKeywords ==
    <<
       <<98, 114, 101, 97, 107>>,
       <<99, 97, 115, 101>>,
       <<99, 104, 97, 110>>,
       <<99, 111, 110, 115, 116>>,
       <<99, 111, 110, 116, 105, 110, 117, 101>>,
       <<100, 101, 102, 97, 117, 108, 116>>,
       <<100, 101, 102, 101, 114>>,
       <<101, 108, 115, 101>>,
       <<102, 97, 108, 108, 116, 104, 114, 111, 117, 103, 104>>,
       <<102, 111, 114>>,
       <<102, 117, 110, 99>>,
       <<103, 111>>,
       <<103, 111, 116, 111>>,
       <<105, 102>>,
       <<105, 109, 112, 111, 114, 116>>,
       <<105, 110, 116, 101, 114, 102, 97, 99, 101>>,
       <<109, 97, 112>>,
       <<112, 97, 99, 107, 97, 103, 101>>,
       <<114, 97, 110, 103, 101>>,
       <<114, 101, 116, 117, 114, 110>>,
       <<115, 101, 108, 101, 99, 116>>,
       <<115, 116, 114, 117, 99, 116>>,
       <<115, 119, 105, 116, 99, 104>>,
       <<116, 121, 112, 101>>,
       <<118, 97, 114>>
    >>

\* The family, the default maximum and the table size of the keyword example.
KeywordsDefaultMax == 16
KeywordsTableBits == 6
KeywordsFamily ==
    [LenCoef |-> Coef(0, 0, 0, TRUE, OpAdd),
     Coefs |-> <<Coef(0, 0, 0, TRUE, OpXor), Coef(1, 0, 0, TRUE, OpXor)>>]

\* A zero HashFinder, and one that an earlier Search left with a table of
\* four slots, two of them marked.
NilTable == [len |-> 0, cap |-> 0, occ |-> {}]
UsedTable == [len |-> 4, cap |-> 4, occ |-> {1, 3}]

\* ----------------------------------------------------------------- state
VARIABLES
    eval,           \* a call of Hash or Apply: arguments and result
    estimate,       \* a call of SearchSuccessProbability: arguments and result
    intSize,        \* bits of int and uint in the build: 32 or 64
    caller,         \* what the caller does: "search", "ops", "keywords",
                    \* "reuse", "step", "pair", "estimate" or "eval"
    hs,             \* the caller's HashSequential
    defaultMax,     \* argument of the caller's last ConfigCoefs call
    hashmap,        \* HashFinder.hashmap: len, cap, indices of non-zero slots
    tableSizeBits,  \* argument of Search
    inputs,         \* argument of Search
    pc,             \* where the caller is
    currentAttempt, \* local of Search
    ret,            \* what Search returned: attempts and error
    visited,        \* coefficient tuples, one per attempt (or per Increment call)
    hashCalls,      \* number of Hash calls made by Search
    incCalls,       \* number of Increment calls made
    runs,           \* two concurrent Search calls: arguments, locals, result
    finders         \* the scratch table of the HashFinder of each of the two

vars == <<eval, estimate, intSize, caller, hs, defaultMax, hashmap, tableSizeBits, inputs,
          pc, currentAttempt, ret,
          visited, hashCalls, incCalls, runs, finders>>

NoRet == [attempts |-> 0, err |-> "none"]
NoEval == [op |-> "none", kw |-> << >>, h |-> 0, out |-> 0]
NoEstimate ==
    [tableSizeBits |-> 0, inputCount |-> 0, searchSpaceSize |-> 0, done |-> FALSE,
     prob |-> [num |-> 0, den |-> 1], err |-> FALSE]

InitCommon ==
    /\ eval = NoEval
    /\ estimate = NoEstimate
    /\ pc = "new"
    /\ defaultMax = 0
    /\ currentAttempt = 0
    /\ ret = NoRet
    /\ visited = << >>
    /\ hashCalls = 0
    /\ incCalls = 0
    /\ runs = << >>
    /\ finders = << >>

\* Searches over families of varied hash shape, with any valid arguments.
InitHash ==
    /\ intSize = 64
    /\ caller = "search"
    /\ hs \in HashFamiliesUpTo(MaxCoefs)
    /\ hashmap = NilTable
    /\ tableSizeBits \in ValidBits
    /\ inputs \in InputLists \ {<< >>}
    /\ InitCommon

\* Searches over families of varied ranges: one input, or the same input twice.
InitOdo ==
    /\ intSize = 64
    /\ caller = "search"
    /\ hs \in OdoFamilies
    /\ hashmap = NilTable
    /\ tableSizeBits = 1
    /\ inputs \in {<< <<1>>, <<1>> >>, << <<1>> >>}
    /\ InitCommon

\* Searches with any arguments, valid or not, on a new or a used finder.
InitArgs ==
    /\ caller = "search"
    /\ hs \in HashFamiliesUpTo(1)
    /\ hashmap \in {NilTable, UsedTable}
    /\ \E b \in BuildsAndBits : intSize = b[1] /\ tableSizeBits = b[2]
    /\ inputs \in InputLists
    /\ InitCommon

\* Searches over families of any operations, configured first or not.
InitOps ==
    /\ intSize = 64
    /\ caller = "ops"
    /\ hs \in OpsFamilies
    /\ hashmap = NilTable
    /\ tableSizeBits = 1
    /\ inputs \in {<< <<1>> >>, << <<1>>, <<2, 1>> >>}
    /\ pc \in {"new", "ready"}
    /\ eval = NoEval
    /\ estimate = NoEstimate
    /\ defaultMax = 0
    /\ currentAttempt = 0
    /\ ret = NoRet
    /\ visited = << >>
    /\ hashCalls = 0
    /\ incCalls = 0
    /\ runs = << >>
    /\ finders = << >>

\* The keyword example: ConfigCoefs(16), then Search over 64 slots.
InitKeywords ==
    /\ intSize = 64
    /\ caller = "keywords"
    /\ hs = KeywordsFamily
    /\ hashmap = NilTable
    /\ tableSizeBits = KeywordsTableBits
    /\ inputs = GoKeywords
    /\ InitCommon

\* A caller that searches again and again with one HashFinder: on families
\* of a length range 1..2, with one byte coefficient or none, and on one
\* whose doubling length coefficient has the single value 2^(WordBits-2).
ReuseFamilies ==
    {[LenCoef |-> Coef(0, 0, 2, FALSE, opUndefined),
      Coefs |-> <<Coef(i, 0, 0, FALSE, OpXor)>>] : i \in IndexSet}
    \cup {[LenCoef |-> Coef(0, Word \div 4, Word \div 4, TRUE, opUndefined),
           Coefs |-> <<Coef(0, 0, 2, FALSE, OpXor)>>],
          [LenCoef |-> Coef(0, 0, 2, FALSE, opUndefined), Coefs |-> << >>]}
ReuseInputs ==
    {<< <<1>>, <<2, 1>> >>, << <<1>>, <<1>> >>, << <<1>>, <<1>>, <<2, 1>> >>,
     << << >>, <<1>>, <<2, 1>> >>}

InitReuse ==
    /\ intSize = 64
    /\ caller = "reuse"
    /\ hs \in ReuseFamilies
    /\ hashmap = NilTable
    /\ tableSizeBits \in ValidBits
    /\ inputs \in ReuseInputs
    /\ InitCommon

\* The variables of Search and ConfigCoefs while no caller uses them.
Idle ==
    /\ hs = [LenCoef |-> Coef(0, 0, 0, FALSE, opUndefined), Coefs |-> << >>]
    /\ hashmap = NilTable /\ tableSizeBits = 0 /\ inputs = << >>
    /\ defaultMax = 0 /\ pc = "idle" /\ currentAttempt = 0 /\ ret = NoRet
    /\ visited = << >> /\ hashCalls = 0 /\ incCalls = 0
    /\ eval = NoEval

\* A caller that asks for an estimate.
EstimateBits == {0, 1, 2, 3, MaxTableBits + 1}
SearchSpaceSizes == {0, 1, 1024}

InitEstimate ==
    /\ intSize = 64
    /\ caller = "estimate"
    /\ Idle
    /\ runs = << >>
    /\ finders = << >>
    /\ \E b \in EstimateBits, n \in (-1)..MaxCount, sz \in SearchSpaceSizes :
          estimate = [NoEstimate EXCEPT !.tableSizeBits = b, !.inputCount = n,
                                        !.searchSpaceSize = sz]

\* A caller that evaluates: families of up to two byte coefficients with a
\* declared operation each, reading a byte from the start, from the end, or
\* at the smallest int.
EvalIndexes == {0, 1, -1, -2, MinInt}
EvalCoefs ==
    {init(Coef(i, 3, 4, FALSE, o)) : i \in EvalIndexes, o \in {OpAdd, OpXor, OpMul}}
EvalFamilies ==
    {[LenCoef |-> init(Coef(0, 3, 4, FALSE, opUndefined)), Coefs |-> cs] :
        cs \in SeqsUpTo(EvalCoefs, 2)}
\* "", "a", "ba"
EvalStrings == {<< >>, <<97>>, <<98, 97>>}
EvalHashes == {0, 5, MaxWord}

InitEval ==
    /\ intSize = 64
    /\ caller = "eval"
    /\ hs \in EvalFamilies
    /\ hashmap = NilTable /\ tableSizeBits = 0 /\ inputs = << >>
    /\ defaultMax = 0 /\ pc = "idle" /\ currentAttempt = 0 /\ ret = NoRet
    /\ visited = << >> /\ hashCalls = 0 /\ incCalls = 0
    /\ eval = NoEval
    /\ estimate = NoEstimate
    /\ runs = << >>
    /\ finders = << >>

\* A caller that advances the family itself.
InitStep ==
    /\ intSize = 64
    /\ caller = "step"
    /\ hs \in OdoFamilies
    /\ hashmap = NilTable
    /\ tableSizeBits = 0
    /\ inputs = << >>
    /\ InitCommon

\* ---------------------------------------------------------------- actions
\* hs.ConfigCoefs(defaultMax)
ConfigCoefs ==
    /\ pc = "new"
    /\ \E d \in IF caller = "keywords" THEN {KeywordsDefaultMax} ELSE DefaultMaxSet :
          LET r == ConfigCoefsResult(hs, d) IN
          /\ defaultMax' = d
          /\ hs' = r.hs
          /\ pc' = IF r.err THEN "configerr" ELSE "ready"
    /\ UNCHANGED <<eval, estimate, intSize, runs, finders, caller, hashmap, tableSizeBits, inputs,
                   currentAttempt, ret, visited, hashCalls, incCalls>>

\* The two precondition tests of Search.
BadTableSizeOffByOne(bits) == bits < 0 \/ bits > MaxTableBits
BadTableSize(bits) == bits <= 0 \/ bits > MaxTableBits

NoInputsNever(ins) == FALSE
NoInputs(ins) == Len(ins) = 0

\* phf.Search(hs, tableSizeBits, inputs), up to the head of the attempt loop.
SearchCall ==
    /\ caller \in {"search", "ops", "reuse", "keywords"}
    /\ pc = "ready"
    /\ IF BadTableSize(tableSizeBits)
       THEN /\ ret' = [attempts |-> 0, err |-> ErrTableSize]
            /\ pc' = "returned"
            /\ UNCHANGED <<hashmap, currentAttempt>>
       ELSE IF NoInputs(inputs)
       THEN /\ ret' = [attempts |-> 0, err |-> ErrZeroInputs]
            /\ pc' = "returned"
            /\ UNCHANGED <<hashmap, currentAttempt>>
       ELSE IF Tblsz(tableSizeBits, intSize) < 0
       THEN \* slices.Grow panics: "cannot be negative"
            /\ pc' = "panicked"
            /\ UNCHANGED <<hashmap, currentAttempt, ret>>
       ELSE /\ hashmap' = Grow(hashmap, Tblsz(tableSizeBits, intSize))
            /\ currentAttempt' = 0
            /\ pc' = "search"
            /\ UNCHANGED ret
    /\ UNCHANGED <<eval, estimate, intSize, defaultMax, runs, finders, caller, hs, tableSizeBits, inputs,
                   visited, hashCalls, incCalls>>

\* One iteration of the attempt loop of Search.
SearchAttempt ==
    /\ pc = "search"
    /\ currentAttempt < MaxAttempts
    /\ LET mask == (hashmap.len - 1) % Word
           s == Scan(hs, inputs, 1, Clear(hashmap).occ, mask, 0, hashmap.len)
           inc == Increment(hs)
       IN  /\ currentAttempt' = currentAttempt + 1
           /\ visited' = Append(visited, Tuple(hs))
           /\ hashmap' = [hashmap EXCEPT !.occ = s.occ]
           /\ hashCalls' = hashCalls + s.hashed
           /\ IF s.panicked
              THEN /\ pc' = "panicked"
                   /\ UNCHANGED <<hs, ret, incCalls>>
              ELSE IF s.attemptSuccess
              THEN /\ ret' = [attempts |-> currentAttempt + 1, err |-> ErrNil]
                   /\ pc' = "returned"
                   /\ UNCHANGED <<hs, incCalls>>
              ELSE /\ incCalls' = incCalls + 1
                   /\ IF inc.panicked
                      THEN /\ pc' = "panicked"
                           /\ UNCHANGED <<hs, ret>>
                      ELSE /\ hs' = inc.hs
                           /\ IF inc.done
                              THEN /\ ret' = [attempts |-> currentAttempt + 1,
                                              err |-> ErrNoCoefficientsFound]
                                   /\ pc' = "returned"
                              ELSE /\ pc' = "search"
                                   /\ UNCHANGED ret
    /\ UNCHANGED <<eval, estimate, intSize, defaultMax, runs, finders, caller, tableSizeBits, inputs>>

\* After a Search has returned the caller calls Search again with the same
\* HashFinder, with any table size and inputs, on the family configured anew
\* or, while its length coefficient is at most twice its maximum, on the
\* family as the last call left it.
SearchAgain ==
    /\ caller = "reuse"
    /\ pc = "returned"
    /\ tableSizeBits' \in ValidBits
    /\ inputs' \in ReuseInputs
    /\ \/ pc' = "new"
       \/ pc' = "ready" /\ hs.LenCoef.Value <= 2 * hs.LenCoef.MaxValue
    /\ currentAttempt' = 0
    /\ ret' = NoRet
    /\ visited' = << >>
    /\ hashCalls' = 0
    /\ incCalls' = 0
    /\ UNCHANGED <<eval, estimate, intSize, defaultMax, runs, finders, caller, hs, hashmap>>

\* The caller advances the family itself: hs.Increment(), repeated until it
\* reports done.
IncrementCall ==
    /\ caller = "step"
    /\ pc \in {"ready", "stepping"}
    /\ incCalls < MaxAttempts
    /\ LET inc == Increment(hs) IN
       /\ incCalls' = incCalls + 1
       /\ visited' = IF pc = "ready" THEN <<Tuple(hs)>> ELSE Append(visited, Tuple(hs))
       /\ IF inc.panicked
          THEN /\ pc' = "panicked"
               /\ UNCHANGED hs
          ELSE /\ hs' = inc.hs
               /\ pc' = IF inc.done THEN "exhausted" ELSE "stepping"
    /\ UNCHANGED <<eval, estimate, intSize, defaultMax, runs, finders, caller, hashmap, tableSizeBits,
                   inputs, currentAttempt, ret, hashCalls>>

\* ------------------------------------------- two Search calls side by side
\* Two callers, each with its own HashSequential and its own HashFinder,
\* whose Search calls are interleaved at every read and write of a scratch
\* table: the call, clear(hashmap), each pass of the inner loop, and the
\* test of attemptSuccess with the Increment that follows it.
Runner == {1, 2}

\* Every call working on the table of one and the same HashFinder.
FinderShared(i) == 1

\* The HashFinder whose table Search call i works on: its receiver phf.
Finder(i) == i

\* Configured families, table sizes and inputs of the two calls.
PairFamilies ==
    {ConfigCoefsResult([LenCoef |-> Coef(0, 0, 2, FALSE, opUndefined),
                        Coefs |-> <<Coef(x[1], 0, 0, FALSE, x[2])>>], 3).hs :
        x \in {<<0, OpXor>>, <<-1, OpMul>>}}
PairInputs == {<< <<1>>, <<2, 1>> >>, << <<1>>, <<1>> >>}

NewRun(family, bits, ins) ==
    [hs |-> family, start |-> family, tableSizeBits |-> bits, inputs |-> ins,
     pc |-> "ready", currentAttempt |-> 0, attemptSuccess |-> TRUE, kw |-> 1,
     ret |-> NoRet]

InitPair ==
    /\ estimate = NoEstimate
    /\ intSize = 64
    /\ caller = "pair"
    /\ Idle
    /\ runs \in [Runner -> {NewRun(f, b, ins) :
                               f \in PairFamilies, b \in ValidBits, ins \in PairInputs}]
    /\ finders = [i \in Runner |-> NilTable]

\* Lines 121 to 125 of call i.
PairCall(i) ==
    /\ caller = "pair"
    /\ runs[i].pc = "ready"
    /\ finders' = [finders EXCEPT ![Finder(i)] =
                      Grow(@, Tblsz(runs[i].tableSizeBits, intSize))]
    /\ runs' = [runs EXCEPT ![i].pc = "attempt", ![i].currentAttempt = 0]
    /\ UNCHANGED <<eval, estimate, intSize, defaultMax, caller, hs, hashmap, tableSizeBits, inputs, pc,
                   currentAttempt, ret, visited, hashCalls, incCalls>>

\* Lines 127 to 129 of call i: the head of an attempt, clear(hashmap) on the
\* 2^tableSizeBits slots of its local slice.
PairBegin(i) ==
    /\ caller = "pair"
    /\ runs[i].pc = "attempt"
    /\ finders' = [finders EXCEPT ![Finder(i)] =
                      [@ EXCEPT !.occ = @ \ (0..(2^runs[i].tableSizeBits - 1))]]
    /\ runs' = [runs EXCEPT ![i].pc = "scan", ![i].kw = 1,
                            ![i].currentAttempt = @ + 1, ![i].attemptSuccess = TRUE]
    /\ UNCHANGED <<eval, estimate, intSize, defaultMax, caller, hs, hashmap, tableSizeBits, inputs, pc,
                   currentAttempt, ret, visited, hashCalls, incCalls>>

\* Lines 130 to 138 of call i: one pass of the inner loop.
PairInput(i) ==
    /\ caller = "pair"
    /\ runs[i].pc = "scan"
    /\ LET r == runs[i]
           mask == (2^r.tableSizeBits - 1) % Word
           hv == Hash(r.hs, r.inputs[r.kw])
           h == BitAnd(hv, mask)
       IN  IF hv = Panic
           THEN /\ runs' = [runs EXCEPT ![i].pc = "panicked"]
                /\ UNCHANGED finders
           ELSE IF h \in finders[Finder(i)].occ
           THEN /\ runs' = [runs EXCEPT ![i].pc = "after", ![i].attemptSuccess = FALSE]
                /\ UNCHANGED finders
           ELSE /\ finders' = [finders EXCEPT ![Finder(i)].occ = @ \cup {h}]
                /\ runs' = [runs EXCEPT ![i].kw = @ + 1,
                                        ![i].pc = IF r.kw = Len(r.inputs)
                                                  THEN "after" ELSE "scan"]
    /\ UNCHANGED <<eval, estimate, intSize, defaultMax, caller, hs, hashmap, tableSizeBits, inputs, pc,
                   currentAttempt, ret, visited, hashCalls, incCalls>>

\* Lines 139 to 147 of call i.
PairAfter(i) ==
    /\ caller = "pair"
    /\ runs[i].pc = "after"
    /\ LET r == runs[i]
           inc == Increment(r.hs)
       IN  runs' = [runs EXCEPT ![i] =
               IF r.attemptSuccess
               THEN [r EXCEPT !.pc = "returned",
                              !.ret = [attempts |-> r.currentAttempt, err |-> ErrNil]]
               ELSE IF inc.panicked
               THEN [r EXCEPT !.pc = "panicked"]
               ELSE IF inc.done
               THEN [r EXCEPT !.hs = inc.hs, !.pc = "returned",
                              !.ret = [attempts |-> r.currentAttempt,
                                       err |-> ErrNoCoefficientsFound]]
               ELSE [r EXCEPT !.hs = inc.hs, !.pc = "attempt"]]
    /\ UNCHANGED <<eval, estimate, intSize, defaultMax, finders, caller, hs, hashmap, tableSizeBits,
                   inputs, pc, currentAttempt, ret, visited, hashCalls, incCalls>>

\* phf.SearchSuccessProbability(tableSizeBits, inputCount, searchSpaceSize)
Estimate ==
    /\ caller = "estimate"
    /\ ~estimate.done
    /\ LET r == SearchSuccessProbability(estimate.tableSizeBits, estimate.inputCount,
                                         estimate.searchSpaceSize)
       IN  estimate' = [estimate EXCEPT !.done = TRUE, !.prob = r.prob, !.err = r.err]
    /\ UNCHANGED <<eval, intSize, defaultMax, runs, finders, caller, hs, hashmap,
                   tableSizeBits, inputs, pc, currentAttempt, ret, visited,
                   hashCalls, incCalls>>

\* hs.Hash(kw)
HashCall ==
    /\ caller = "eval"
    /\ eval.op = "none"
    /\ \E kw \in EvalStrings :
          eval' = [op |-> "Hash", kw |-> kw, h |-> 0, out |-> Hash(hs, kw)]
    /\ UNCHANGED <<estimate, intSize, defaultMax, runs, finders, caller, hs, hashmap,
                   tableSizeBits, inputs, pc, currentAttempt, ret, visited,
                   hashCalls, incCalls>>

\* hs.Coefs[0].Apply(h, kw)
ApplyCall ==
    /\ caller = "eval"
    /\ eval.op = "none"
    /\ Len(hs.Coefs) >= 1
    /\ \E kw \in EvalStrings, h \in EvalHashes :
          eval' = [op |-> "Apply", kw |-> kw, h |-> h, out |-> Apply(hs.Coefs[1], h, kw)]
    /\ UNCHANGED <<estimate, intSize, defaultMax, runs, finders, caller, hs, hashmap,
                   tableSizeBits, inputs, pc, currentAttempt, ret, visited,
                   hashCalls, incCalls>>

PairStep == \E i \in Runner : PairCall(i) \/ PairBegin(i) \/ PairInput(i) \/ PairAfter(i)


Init ==
    \/ InitHash \/ InitOdo \/ InitArgs \/ InitOps \/ InitKeywords \/ InitReuse
    \/ InitStep \/ InitPair \/ InitEstimate \/ InitEval

Next ==
    \/ ConfigCoefs \/ SearchCall \/ SearchAttempt \/ SearchAgain
    \/ IncrementCall \/ PairStep \/ Estimate \/ HashCall \/ ApplyCall

Spec == Init /\ [][Next]_vars


\* ================================================================ claims
HasReturned == caller = "search" /\ pc = "returned"
Succeeded == HasReturned /\ ret.err = ErrNil
Exhausted == HasReturned /\ ret.err = ErrNoCoefficientsFound

\* The slot of a string: Hash(s) & (2^tableSizeBits - 1), the low bits of the hash.
Slot(family, s, bits) == Hash(family, s) % (2^bits)

\* Some two distinct positions of ins share a slot under family.
Collides(family, ins, bits) ==
    \E i, j \in 1..Len(ins) : i # j /\ Slot(family, ins[i], bits) = Slot(family, ins[j], bits)

\* C1: whenever Search returns a nil error, the coefficient values the family
\* holds at return send every two distinct positions of inputs to different
\* slots: Search never reports a false success.
C1_SoundSuccess == Succeeded => ~Collides(hs, inputs, tableSizeBits)

\* A success found after at least one colliding attempt, for two or more inputs.
C1_Witness == Succeeded /\ Len(inputs) >= 2 /\ ret.attempts >= 2 /\ Len(hs.Coefs) >= 1

\* C7: for exactly one input and a valid tableSizeBits, Search returns (1, nil)
\* on its first attempt, whatever the coefficients of the configured family.
C7_SingleInput ==
    (caller = "search" /\ Len(inputs) = 1 /\ tableSizeBits \in 1..MaxTableBits) =>
        /\ pc # "panicked"
        /\ pc = "search" => currentAttempt = 0
        /\ pc = "returned" => ret = [attempts |-> 1, err |-> ErrNil]

\* A single input placed in a table of two slots that held stale marks.
C7_Witness ==
    /\ Succeeded /\ Len(inputs) = 1 /\ tableSizeBits = 1 /\ ret.attempts = 1
    /\ hashmap.cap = 4 /\ Len(hs.Coefs) = 1

\* C9: with tableSizeBits <= 0 or > 32 Search returns 0 attempts and an error
\* that is neither nil nor ErrNoCoefficientsFound, calls neither Hash nor
\* Increment and leaves the family and the scratch table as they were.
C9_BadTableSize ==
    [][(caller = "search" /\ pc = "ready"
        /\ (tableSizeBits <= 0 \/ tableSizeBits > 32)) =>
            /\ pc' = "returned"
            /\ ret'.attempts = 0
            /\ ret'.err \notin {ErrNil, ErrNoCoefficientsFound}
            /\ hashCalls' = hashCalls /\ incCalls' = incCalls
            /\ hs' = hs /\ hashmap' = hashmap]_vars

\* Search has refused a table size on a finder whose table holds marks.
C9_Witness ==
    /\ HasReturned /\ ret.err = ErrTableSize /\ tableSizeBits = 0
    /\ hashmap = UsedTable /\ Len(inputs) >= 1 /\ Len(hs.Coefs) = 1

\* C10: with tableSizeBits in 1..32 and no inputs Search returns 0 attempts and
\* an error that is neither nil, nor ErrNoCoefficientsFound, nor the table-size
\* error, calls neither Hash nor Increment and leaves the family and the
\* scratch table as they were.
C10_NoInputs ==
    [][(caller = "search" /\ pc = "ready"
        /\ tableSizeBits \in 1..32 /\ inputs = << >>) =>
            /\ pc' = "returned"
            /\ ret'.attempts = 0
            /\ ret'.err \notin {ErrNil, ErrNoCoefficientsFound, ErrTableSize}
            /\ hashCalls' = hashCalls /\ incCalls' = incCalls
            /\ hs' = hs /\ hashmap' = hashmap]_vars

\* Search has refused an empty input list on a finder whose table holds marks.
C10_Witness ==
    /\ HasReturned /\ ret.err = ErrZeroInputs /\ tableSizeBits = 2
    /\ hashmap = UsedTable /\ inputs = << >> /\ Len(hs.Coefs) = 1


\* ------------------------------------------------------ ranges and spaces
\* The values a coefficient takes when it is advanced from its start value in
\* the integers (no machine word): start, start+1, ... or start, 2*start, ...
StepValues(c) ==
    IF c.OnlyPow2 THEN {StartOf(c) * 2^k : k \in 0..WordBits}
    ELSE StartOf(c)..MaxWord

\* The values of a byte coefficient that are not exhausted (Value < MaxValue),
\* and those of the length coefficient that are not done (Value <= MaxValue).
ByteRange(c) == {v \in StepValues(c) : v < c.MaxValue}
LenRange(c) == {v \in StepValues(c) : v <= c.MaxValue}

RECURSIVE ByteCombos(_, _)
ByteCombos(coefs, i) ==
    IF i > Len(coefs) THEN {<< >>}
    ELSE {<<v>> \o t : v \in ByteRange(coefs[i]), t \in ByteCombos(coefs, i + 1)}

\* Every length value in its range combined with every byte value in its range.
AllCombos(family) ==
    {<<l>> \o t : l \in LenRange(family.LenCoef), t \in ByteCombos(family.Coefs, 1)}

Times(history, t) == Cardinality({k \in DOMAIN history : history[k] = t})

\* The family with its coefficient values replaced by those of tuple t.
WithValues(family, t) ==
    [LenCoef |-> [family.LenCoef EXCEPT !.Value = t[1]],
     Coefs |-> [i \in 1..Len(family.Coefs) |->
                   [family.Coefs[i] EXCEPT !.Value = t[i + 1]]]]

\* C2: whenever Search returns ErrNoCoefficientsFound on a freshly configured
\* family, every combination of a length value in its range with byte values
\* in their ranges was evaluated in exactly one attempt, and every attempt
\* made produced a collision.
C2_CompleteFailure ==
    Exhausted =>
        /\ \A t \in AllCombos(hs) : Times(visited, t) = 1
        /\ \A k \in DOMAIN visited :
              Collides(WithValues(hs, visited[k]), inputs, tableSizeBits)

\* A failed search over two byte coefficients and a length coefficient of two
\* values each: eight combinations, eight attempts.
C2_Witness ==
    /\ Exhausted /\ Len(hs.Coefs) = 2
    /\ Cardinality(AllCombos(hs)) = 8 /\ ret.attempts = 8

\* C3: Search on a configured family with at least one byte coefficient
\* eventually returns.  The attempt loop is deterministic and what it does
\* from an attempt on depends on the coefficient values alone, so it returns
\* exactly when no attempt starts from the coefficient values of an earlier
\* attempt of the same call.
C3_SearchTerminates ==
    (caller = "search" /\ pc = "search" /\ Len(hs.Coefs) >= 1) =>
        \A k \in DOMAIN visited : visited[k] # Tuple(hs)

\* The size of the configured range [start, MaxValue] of a coefficient.
RangeSize(c) == IF StartOf(c) <= c.MaxValue THEN c.MaxValue - StartOf(c) + 1 ELSE 0

RECURSIVE RangeProduct(_, _)
RangeProduct(coefs, i) ==
    IF i > Len(coefs) THEN 1 ELSE RangeSize(coefs[i]) * RangeProduct(coefs, i + 1)

\* C4: when Search returns ErrNoCoefficientsFound, the attempt count is at most
\* the product of the range sizes of the length and byte coefficients.
C4_ExhaustionBound ==
    Exhausted => ret.attempts <= RangeSize(hs.LenCoef) * RangeProduct(hs.Coefs, 1)

\* C5: the coefficient tuples produced by repeated Increment calls on a
\* configured family hold no tuple twice before Increment returns done.
C5_NoRepeatedTuple ==
    (caller = "step" /\ pc = "stepping") =>
        \A k \in DOMAIN visited : visited[k] # Tuple(hs)

\* The number of combinations the odometer reaches: a coefficient whose range
\* is empty still has its start value.
RECURSIVE ByteSpace(_, _)
ByteSpace(coefs, i) ==
    IF i > Len(coefs) THEN 1
    ELSE (IF ByteRange(coefs[i]) = {} THEN 1 ELSE Cardinality(ByteRange(coefs[i])))
         * ByteSpace(coefs, i + 1)

SpaceSize(family) ==
    (IF LenRange(family.LenCoef) = {} THEN 1 ELSE Cardinality(LenRange(family.LenCoef)))
    * ByteSpace(family.Coefs, 1)

HasDuplicate(ins) == \E i, j \in 1..Len(ins) : i # j /\ ins[i] = ins[j]

\* C6: if inputs holds the same string twice, Search on a configured family
\* with a valid tableSizeBits returns ErrNoCoefficientsFound, never success,
\* with an attempt count equal to the size of the search space.
C6_DuplicateInputs ==
    (caller = "search" /\ HasDuplicate(inputs) /\ tableSizeBits \in 1..MaxTableBits) =>
        /\ pc # "panicked"
        /\ pc = "search" => \A k \in DOMAIN visited : visited[k] # Tuple(hs)
        /\ pc = "returned" =>
              /\ ret.err = ErrNoCoefficientsFound
              /\ ret.attempts = SpaceSize(hs)

\* C8: a family with no byte coefficients is valid: Increment advances the
\* length coefficient alone, and a failing Search over it makes as many
\* attempts as the length range has values, without aborting.
C8_NoByteCoefs ==
    Len(hs.Coefs) = 0 =>
        /\ pc # "panicked"
        /\ Exhausted => ret.attempts = Cardinality(LenRange(hs.LenCoef))

\* ------------------------------------------------------ two Search calls
SameCall(r, q) ==
    r.start = q.start /\ r.tableSizeBits = q.tableSizeBits /\ r.inputs = q.inputs

Finished(r) == r.pc \in {"returned", "panicked"}

\* C11: two Search runs started from equal family states, with the same
\* tableSizeBits and the same inputs in the same order, each on its own fresh
\* HashFinder, end the same way: the same attempt count, the same outcome and
\* equal final family states, however their steps are interleaved.
C11_Determinism ==
    (caller = "pair" /\ SameCall(runs[1], runs[2])
     /\ Finished(runs[1]) /\ Finished(runs[2])) =>
        /\ runs[1].pc = runs[2].pc
        /\ runs[1].ret = runs[2].ret
        /\ runs[1].hs = runs[2].hs

\* Two equal calls that both succeeded after a colliding first attempt.
C11_Witness ==
    /\ caller = "pair" /\ SameCall(runs[1], runs[2])
    /\ runs[1].pc = "returned" /\ runs[2].pc = "returned"
    /\ runs[1].ret.err = ErrNil /\ runs[1].ret.attempts >= 2
    /\ runs[1].hs # runs[1].start

\* The result of call r made alone on a zero HashFinder.
Alone(r) == SearchFresh(r.start, r.tableSizeBits, r.inputs, intSize)

\* C17: two Search calls on distinct HashFinder and HashSequential instances,
\* their steps interleaved in any way, each return what they return when run
\* alone and leave the family they leave when run alone; and a step of one
\* call changes neither the family, the locals and the result of the other
\* call nor the table of the other HashFinder.
C17_IndependentInstances ==
    /\ [](caller = "pair" =>
            \A i \in Runner :
                Finished(runs[i]) =>
                    /\ runs[i].pc = "returned"
                    /\ runs[i].ret = [attempts |-> Alone(runs[i]).attempts,
                                      err |-> Alone(runs[i]).err]
                    /\ runs[i].hs = Alone(runs[i]).hs)
    /\ [][caller = "pair" =>
            \A i, j \in Runner :
                (i # j /\ runs'[i] # runs[i]) =>
                    runs'[j] = runs[j] /\ finders'[j] = finders[j]]_vars

\* Two different calls have both returned: one found coefficients on its
\* second or a later attempt over four slots, the other exhausted its family
\* over two slots.
C17_Witness ==
    /\ caller = "pair"
    /\ runs[1].pc = "returned" /\ runs[2].pc = "returned"
    /\ runs[1].ret.err = ErrNil /\ runs[1].ret.attempts >= 2
    /\ runs[1].tableSizeBits = 2
    /\ runs[2].ret.err = ErrNoCoefficientsFound /\ runs[2].tableSizeBits = 1
    /\ runs[1].start # runs[2].start

\* ------------------------------------------------------------- the table
\* n = 2^bits, without computing 2^bits.
RECURSIVE IsTwoToThe(_, _)
IsTwoToThe(n, bits) ==
    IF bits = 0 THEN n = 1
    ELSE n > 0 /\ n % 2 = 0 /\ IsTwoToThe(n \div 2, bits - 1)

\* Search has passed its precondition tests.
InSearch ==
    /\ caller = "search"
    /\ \/ pc \in {"search", "panicked"}
       \/ pc = "returned" /\ ret.err \in {ErrNil, ErrNoCoefficientsFound}

\* C12: once Search has accepted its arguments (tableSizeBits in 1..32) the
\* scratch table has exactly 2^tableSizeBits slots, and every raw hash value,
\* masked, is an index into it: 0 <= index < 2^tableSizeBits.
C12_MaskedIndexInRange ==
    InSearch =>
        /\ IsTwoToThe(hashmap.len, tableSizeBits)
        /\ \A hv \in 0..MaxWord :
              BitAnd(hv, (hashmap.len - 1) % Word) \in 0..(hashmap.len - 1)

\* ------------------------------------------------------------ ConfigCoefs
\* The coefficients of a family, the length coefficient last.
AllCoefs(family) == Append(family.Coefs, family.LenCoef)

\* C13: ConfigCoefs(defaultMax) returns an error exactly when defaultMax is 0
\* and some coefficient, byte or length, has MaxValue 0; and it leaves every
\* non-zero MaxValue as it was.
C13_ConfigError ==
    [][(pc = "new" /\ pc' \in {"ready", "configerr"}) =>
          LET before == AllCoefs(hs)
              after == AllCoefs(hs')
          IN  /\ (pc' = "configerr") <=>
                     (defaultMax' = 0 /\ \E i \in DOMAIN before : before[i].MaxValue = 0)
              /\ \A i \in DOMAIN before :
                     before[i].MaxValue # 0 => after[i].MaxValue = before[i].MaxValue]_vars

\* ConfigCoefs(0) has failed on a family whose length coefficient had a
\* MaxValue and whose two byte coefficients had none.
C13_Witness ==
    /\ pc = "configerr" /\ defaultMax = 0
    /\ Len(hs.Coefs) = 2 /\ hs.LenCoef.MaxValue = 2
    /\ hs.Coefs[1].MaxValue = 0

\* C14 as stated: after ConfigCoefs has returned nil every coefficient, byte
\* and length, has MaxValue > 0, has Value = StartValue (1 when StartValue is
\* 0), and has an Op that is one of ADD, XOR, MULTIPLY.
C14_ConfiguredOpDeclared ==
    [][(pc = "new" /\ pc' = "ready") =>
          \A i \in DOMAIN AllCoefs(hs') :
              LET c == AllCoefs(hs')[i] IN
              /\ c.MaxValue > 0
              /\ c.Value = (IF c.StartValue = 0 THEN 1 ELSE c.StartValue)
              /\ c.Op \in {OpAdd, OpXor, OpMul}]_vars

\* C14 amended: after ConfigCoefs has returned nil every coefficient has
\* MaxValue > 0 and Value = StartValue (1 when StartValue is 0); its Op is ADD
\* if it was unset and is what the caller wrote otherwise, so it is one of
\* ADD, XOR, MULTIPLY exactly when the caller wrote one of these or none.
C14_Configured ==
    [][(pc = "new" /\ pc' = "ready") =>
          \A i \in DOMAIN AllCoefs(hs') :
              LET c == AllCoefs(hs')[i]
                  b == AllCoefs(hs)[i]
              IN  /\ c.MaxValue > 0
                  /\ c.Value = (IF c.StartValue = 0 THEN 1 ELSE c.StartValue)
                  /\ c.StartValue = b.StartValue
                  /\ c.Op = (IF b.Op = opUndefined THEN OpAdd ELSE b.Op)
                  /\ c.Op \in {OpAdd, OpXor, OpMul}
                        <=> b.Op \in {opUndefined, OpAdd, OpXor, OpMul}]_vars

\* ConfigCoefs has returned nil on a family with an unset operation, a
\* declared one and one that is neither.
C14_Witness ==
    /\ caller = "ops" /\ pc = "ready" /\ defaultMax = 3 /\ Len(hs.Coefs) = 2
    /\ hs.LenCoef.Op = OpAdd /\ hs.LenCoef.Value = 1
    /\ hs.Coefs[1].Op = OpXor /\ hs.Coefs[2].Op = OpMul + 1

\* ------------------------------------------------- unsupported operations
\* Some byte coefficient holds an operation that is unset or not declared.
HasUnsupportedOp(family) ==
    \E i \in DOMAIN family.Coefs : family.Coefs[i].Op \notin {OpAdd, OpXor, OpMul}

\* C15: Hash on a family in which some byte coefficient has an unset or
\* unrecognized Op panics instead of returning a hash value, for any string;
\* and a Search on such a family panics in its first Hash call, without
\* returning, advancing the family or starting a second attempt.
C15_UnsupportedOperation ==
    [][HasUnsupportedOp(hs) =>
          /\ \A s \in StringPool : Hash(hs, s) = Panic
          /\ pc = "search" =>
                /\ currentAttempt = 0
                /\ pc' = "panicked"
                /\ hashCalls = 0 /\ hashCalls' = 1
                /\ incCalls' = incCalls
                /\ ret' = ret /\ hs' = hs]_vars

\* A Search on a configured family whose second byte coefficient holds an
\* undeclared operation has panicked in its first Hash call.
C15_Witness ==
    /\ caller = "ops" /\ pc = "panicked" /\ hashCalls = 1 /\ currentAttempt = 1
    /\ defaultMax = 3 /\ Len(hs.Coefs) = 2 /\ Len(inputs) = 2
    /\ hs.Coefs[1].Op = OpXor /\ hs.Coefs[2].Op = OpMul + 1

\* ------------------------------------------------------ one finder, reused
\* C16: whatever Search calls were made on a HashFinder before, with larger
\* or smaller tables and any outcomes, a Search on it returns the attempt
\* count and outcome, and leaves the family in the state, of the same call on
\* a fresh HashFinder.  (visited[1] holds the coefficient values the call
\* started from.)
C16_ReuseFinder ==
    (caller = "reuse" /\ pc = "returned") =>
        LET fresh == SearchFresh(WithValues(hs, visited[1]), tableSizeBits, inputs, intSize)
        IN  /\ ret = [attempts |-> fresh.attempts, err |-> fresh.err]
            /\ hs = fresh.hs

\* A search over two slots has succeeded on its second attempt on a finder
\* that an earlier search over four slots left with marks in all four.
C16_Witness ==
    /\ caller = "reuse" /\ pc = "returned" /\ ret.err = ErrNil /\ ret.attempts >= 2
    /\ hashmap.len = 2 /\ hashmap.cap = 4 /\ hashmap.occ \cap {2, 3} # {}

\* --------------------------------------------------- the keyword example
\* C18: for the 25 keywords of Go in go/token order, tableSizeBits = 6 and a
\* family of a length coefficient (OnlyPow2, ADD) and byte coefficients at
\* indices 0 and 1 (OnlyPow2, XOR) configured with ConfigCoefs(16), Search
\* returns nil with LenCoef.Value = 8, Coefs[0].Value = 1, Coefs[1].Value = 8,
\* and it does return.
C18_GoKeywords ==
    caller = "keywords" =>
        /\ pc \notin {"configerr", "panicked"}
        /\ pc = "search" => currentAttempt < MaxAttempts
        /\ pc = "returned" =>
              /\ ret.err = ErrNil
              /\ hs.LenCoef.Value = 8
              /\ hs.Coefs[1].Value = 1
              /\ hs.Coefs[2].Value = 8

\* The keyword search has returned.
C18_Witness ==
    /\ caller = "keywords" /\ pc = "returned" /\ Len(inputs) = 25
    /\ tableSizeBits = 6 /\ defaultMax = 16 /\ ret.attempts > 1

Advanced(c) == IF c.OnlyPow2 THEN (2 * c.Value) % Word ELSE (c.Value + 1) % Word

\* The first byte coefficient that one advance does not exhaust, or one past
\* the last if one advance exhausts each of them.
FirstNotExhausted(coefs) ==
    LET open == {i \in DOMAIN coefs : Advanced(coefs[i]) < coefs[i].MaxValue}
    IN  IF open = {} THEN Len(coefs) + 1
        ELSE CHOOSE i \in open : \A j \in open : i <= j

\* C20: one Increment call advances Coefs[0] once; walking up from index 0,
\* every byte coefficient that its advance exhausts (Value >= MaxValue) is
\* reset to StartValue (1 when StartValue is 0) and the next one is advanced
\* once; the carry out of the last byte coefficient advances the length
\* coefficient once; the coefficients above the first one that is not
\* exhausted, and the length coefficient when there is such a one, keep their
\* values.
C20_OdometerCarry ==
    [][(caller = "step" /\ pc \in {"ready", "stepping"}
        /\ pc' \in {"stepping", "exhausted"}) =>
          LET k == FirstNotExhausted(hs.Coefs) IN
          /\ Len(hs'.Coefs) = Len(hs.Coefs)
          /\ \A i \in DOMAIN hs.Coefs :
                hs'.Coefs[i].Value =
                    IF i < k
                    THEN (IF hs.Coefs[i].StartValue = 0 THEN 1 ELSE hs.Coefs[i].StartValue)
                    ELSE IF i = k THEN Advanced(hs.Coefs[i])
                    ELSE hs.Coefs[i].Value
          /\ hs'.LenCoef.Value =
                IF k > Len(hs.Coefs) THEN Advanced(hs.LenCoef) ELSE hs.LenCoef.Value]_vars

\* An Increment call has carried through two byte coefficients of range 2..4
\* into the length coefficient: from (l, 3, 3) to (l + 1, 2, 2).
C20_Witness ==
    /\ caller = "step" /\ pc = "stepping" /\ Len(hs.Coefs) = 2
    /\ visited[Len(visited)][2] = 3 /\ visited[Len(visited)][3] = 3
    /\ Tuple(hs) = <<visited[Len(visited)][1] + 1, 2, 2>>

\* ------------------------------------------------- the length coefficient
\* A step in which the caller's Increment call ran to its end.
IncrementStep ==
    /\ caller = "step" /\ pc \in {"ready", "stepping"}
    /\ pc' \in {"stepping", "exhausted"}

\* C21: no Increment call decreases LenCoef.Value or sets it back to its start
\* value, and Increment returns done exactly when after the step
\* LenCoef.Value > LenCoef.MaxValue.
C21_LenCoefNeverReset ==
    [][IncrementStep =>
          /\ hs'.LenCoef.Value >= hs.LenCoef.Value
          /\ hs'.LenCoef.Value # hs.LenCoef.Value =>
                hs'.LenCoef.Value # StartOf(hs.LenCoef)
          /\ (pc' = "exhausted") <=> (hs'.LenCoef.Value > hs'.LenCoef.MaxValue)]_vars

\* ------------------------------------------------ one advance per collision
\* From attempt k on, the attempts recorded are those on family and on what
\* one Increment call after the other makes of it; each but the last
\* collides; a success leaves the family of the last attempt, which does not
\* collide, and a failure that family advanced once more.
RECURSIVE AdvancedFrom(_, _)
AdvancedFrom(family, k) ==
    /\ visited[k] = Tuple(family)
    /\ IF k < ret.attempts
       THEN /\ Collides(family, inputs, tableSizeBits)
            /\ AdvancedFrom(Increment(family).hs, k + 1)
       ELSE /\ Succeeded => hs = family /\ ~Collides(family, inputs, tableSizeBits)
            /\ Exhausted => hs = Increment(family).hs
                            /\ Collides(family, inputs, tableSizeBits)

\* C22: Search calls Increment once after each colliding attempt and never
\* after a successful one.  On success with attempt count n the family is the
\* initial family advanced n - 1 times, Increment was called n - 1 times, and
\* each of the n - 1 configurations before it in odometer order collides while
\* it does not; on failure with attempt count n Increment was called n times
\* and the family is the initial one advanced n times.  (visited[1] holds the
\* coefficient values the call started from.)
C22_OneAdvancePerCollision ==
    (Succeeded \/ Exhausted) =>
        /\ ret.attempts >= 1 /\ Len(visited) = ret.attempts
        /\ incCalls = (IF Succeeded THEN ret.attempts - 1 ELSE ret.attempts)
        /\ AdvancedFrom(WithValues(hs, visited[1]), 1)

\* A search over two byte coefficients has succeeded on its third or a later
\* attempt, after as many Increment calls as attempts collided.
C22_Witness ==
    /\ Succeeded /\ ret.attempts >= 3 /\ incCalls = ret.attempts - 1
    /\ Len(hs.Coefs) = 2 /\ Len(inputs) = 2

\* -------------------------------------------------------------- evaluation
\* The index addresses no byte of the string: a non-negative index at or past
\* its end, or a negative one further from its end than its length.
OutOfRange(idx, kw) == (idx >= 0 /\ idx >= Len(kw)) \/ (idx < 0 /\ -idx > Len(kw))

\* C23: for a coefficient whose IndexApplied addresses no byte of the string,
\* Apply does not fail and returns the running hash it was given, whichever
\* of ADD, XOR, MULTIPLY the coefficient combines with.
C23_OutOfRangeIndex ==
    (caller = "eval" /\ eval.op = "Apply"
     /\ OutOfRange(hs.Coefs[1].IndexApplied, eval.kw)) =>
        /\ eval.out # Panic
        /\ eval.out = eval.h

\* The byte a coefficient reads, 0 where its index addresses none.
ByteAt(c, kw) ==
    IF c.IndexApplied >= 0 /\ c.IndexApplied < Len(kw) THEN kw[c.IndexApplied + 1]
    ELSE IF c.IndexApplied < 0 /\ -c.IndexApplied <= Len(kw)
         THEN kw[Len(kw) + c.IndexApplied + 1]
         ELSE 0

\* The hash in the integers, without a machine word: from len(s) *
\* LenCoef.Value, each byte coefficient in list order combining byte * Value
\* into the running value with its operation.
RECURSIVE ExactFrom(_, _, _, _)
ExactFrom(coefs, i, h, kw) ==
    IF i > Len(coefs) THEN h
    ELSE LET a == ByteAt(coefs[i], kw) * coefs[i].Value
             next == CASE coefs[i].Op = OpAdd -> h + a
                       [] coefs[i].Op = OpXor -> BitXor(h, a)
                       [] coefs[i].Op = OpMul -> h * a
         IN  ExactFrom(coefs, i + 1, next, kw)

ExactHash(family, kw) == ExactFrom(family.Coefs, 1, Len(kw) * family.LenCoef.Value, kw)

\* C24: Hash(s) is, modulo the machine word, the value obtained from
\* len(s) * LenCoef.Value by applying the byte coefficients in list order,
\* each combining (its byte, counted from the end for a negative index, times
\* its Value) with its own operation; and Hash changes no coefficient.
C24_HashEvaluation ==
    /\ [](caller = "eval" /\ eval.op = "Hash" =>
             eval.out = ExactHash(hs, eval.kw) % Word)
    /\ [][caller = "eval" /\ eval'.op = "Hash" => hs' = hs]_vars

\* ------------------------------------------------------------ short circuit
\* The positions of ins whose slot is that of an earlier position.
CollidingAt(family, ins, bits) ==
    {j \in 1..Len(ins) :
        \E i \in 1..(j - 1) : Slot(family, ins[i], bits) = Slot(family, ins[j], bits)}

\* The number of inputs up to and including the first of the colliding
\* positions, or n where there is none.
UpToFirst(colliding, n) ==
    IF colliding = {} THEN n
    ELSE CHOOSE j \in colliding : \A k \in colliding : j <= k

\* C25: in one attempt Search hashes the inputs in the caller's order, each
\* once, up to and including the first one whose slot is occupied, and none
\* after it: the attempt makes as many Hash calls as there are inputs up to
\* the first colliding one, and it is abandoned exactly when one collides.
C25_ShortCircuit ==
    [][(pc = "search" /\ currentAttempt' = currentAttempt + 1 /\ pc' # "panicked") =>
          LET colliding == CollidingAt(hs, inputs, tableSizeBits) IN
          /\ hashCalls' - hashCalls = UpToFirst(colliding, Len(inputs))
          /\ (colliding # {}) <=> ~(pc' = "returned" /\ ret'.err = ErrNil)]_vars

\* A search over three inputs, the second equal to the first, has returned
\* after one attempt that hashed two of them.
C25_Witness ==
    /\ caller = "reuse" /\ pc = "returned" /\ Len(inputs) = 3
    /\ ret.attempts = 1 /\ hashCalls = 2

\* -------------------------------------------------------------- input order
\* The permutations of 1..n, and a list rearranged by one.
Perms(n) == {f \in [1..n -> 1..n] : \A i, j \in 1..n : f[i] = f[j] => i = j}
Permuted(ins, f) == [i \in 1..Len(ins) |-> ins[f[i]]]
Reversed(ins) == [i \in 1..Len(ins) |-> ins[Len(ins) + 1 - i]]

\* The call that has returned and the same call on inputs ins return the
\* same attempt count and error and leave the same family.
SameResultOn(ins) ==
    LET r == SearchFresh(WithValues(hs, visited[1]), tableSizeBits, ins, intSize)
    IN  r.attempts = ret.attempts /\ r.err = ret.err /\ r.hs = hs

\* C26: for every permutation of the inputs, Search from the same family
\* state with the same tableSizeBits returns the same outcome and attempt
\* count and leaves the same coefficient values.  (Every permutation of the
\* lists of a caller that searches repeatedly, of two and of three inputs;
\* every other list, and the keyword list, in reverse.)
C26_InputOrder ==
    [](pc = "returned" /\ ret.err \in {ErrNil, ErrNoCoefficientsFound} =>
          /\ caller = "reuse" =>
                \A f \in Perms(Len(inputs)) : SameResultOn(Permuted(inputs, f))
          /\ caller \in {"search", "keywords"} => SameResultOn(Reversed(inputs)))

\* A search over three inputs, two of them equal, has failed after more than
\* one attempt.
C26_Witness ==
    /\ caller = "reuse" /\ pc = "returned" /\ Len(inputs) = 3
    /\ ret.err = ErrNoCoefficientsFound /\ ret.attempts >= 2

\* ----------------------------------------------------------- range invariant
\* Every coefficient of the family has its StartValue below its MaxValue.
StartBelowMax(family) ==
    \A i \in DOMAIN AllCoefs(family) :
        AllCoefs(family)[i].StartValue < AllCoefs(family)[i].MaxValue

\* C27: in a Search on a configured family whose coefficients all have
\* StartValue < MaxValue, at every attempt, and at a success, every byte
\* coefficient has start <= Value < MaxValue and the length coefficient has
\* start <= Value <= MaxValue, start being StartValue, or 1 when that is 0.
C27_RangeInvariant ==
    (caller = "search" /\ (pc = "search" \/ Succeeded) /\ StartBelowMax(hs)) =>
        /\ \A i \in DOMAIN hs.Coefs :
              /\ StartOf(hs.Coefs[i]) <= hs.Coefs[i].Value
              /\ hs.Coefs[i].Value < hs.Coefs[i].MaxValue
        /\ StartOf(hs.LenCoef) <= hs.LenCoef.Value
        /\ hs.LenCoef.Value <= hs.LenCoef.MaxValue

\* ------------------------------------------------ state of a failed search
\* Search has returned ErrNoCoefficientsFound: to a caller that configured
\* the family before the call, or to one that searches again and again.
Failed ==
    /\ caller \in {"search", "reuse"}
    /\ pc = "returned" /\ ret.err = ErrNoCoefficientsFound

\* The family as it was at the last attempt, before the final Increment.
BeforeLast == WithValues(hs, visited[Len(visited)])

\* C28: when Search returns ErrNoCoefficientsFound the family is left with
\* LenCoef.Value > LenCoef.MaxValue, with its last byte coefficient and every
\* byte coefficient that carried in the final step at its start value, and
\* with coefficient values other than those the call started from.
C28_FailedSearchState ==
    Failed =>
        /\ hs.LenCoef.Value > hs.LenCoef.MaxValue
        /\ hs.Coefs[Len(hs.Coefs)].Value = StartOf(hs.Coefs[Len(hs.Coefs)])
        /\ \A i \in DOMAIN hs.Coefs :
              i < FirstNotExhausted(BeforeLast.Coefs) =>
                  hs.Coefs[i].Value = StartOf(hs.Coefs[i])
        /\ Tuple(hs) # visited[1]

\* ------------------------------------------- Search on an exhausted family
\* A Search call that was made with LenCoef.Value above LenCoef.MaxValue has
\* made its first attempt.  (visited[1] holds the coefficient values the call
\* started from.)
StartedExhausted ==
    /\ caller = "reuse"
    /\ currentAttempt >= 1
    /\ visited[1][1] > hs.LenCoef.MaxValue

\* C29: a Search called on a family whose LenCoef.Value already exceeds
\* LenCoef.MaxValue makes one attempt and returns (1, nil) or
\* (1, ErrNoCoefficientsFound); it makes no second attempt.
C29_ExhaustedFamily ==
    StartedExhausted =>
        /\ pc = "returned"
        /\ ret.attempts = 1
        /\ ret.err \in {ErrNil, ErrNoCoefficientsFound}

\* ---------------------------------------------------------------- pigeonhole
\* A Search that has passed its precondition tests was called with more
\* inputs than the table has slots.
MoreInputsThanSlots ==
    /\ caller \in {"search", "reuse"}
    /\ tableSizeBits \in ValidBits
    /\ Len(inputs) > 2^tableSizeBits
    /\ pc \in {"search", "returned", "panicked"}

\* The call started from the start values of the family.
FromStart == \A i \in DOMAIN AllCoefs(hs) : Append(Tail(visited[1]), visited[1][1])[i]
                                             = StartOf(AllCoefs(hs)[i])

\* C30: with more inputs than 2^tableSizeBits slots Search does not return
\* success, whatever the family; it does not abort, and when it returns it
\* returns ErrNoCoefficientsFound, having tried every combination of the
\* space if it started from the start values.
C30_Pigeonhole ==
    MoreInputsThanSlots =>
        /\ ~(pc = "returned" /\ ret.err = ErrNil)
        /\ pc # "panicked"
        /\ pc = "returned" =>
              /\ ret.err = ErrNoCoefficientsFound
              /\ FromStart => \A t \in AllCombos(hs) : Times(visited, t) = 1

====
